---- MODULE Spec2Model ----
(***************************************************************************)
(* A model of the four-cc crate (src/lib.rs): the FourCC newtype over      *)
(* [u8; 4], its constructors, its conversions to and from u32, its         *)
(* Display / Debug renderings and its serde text adapters.                 *)
(*                                                                         *)
(* A byte is a number in 0..255.  A byte slice, a [u8; 4] and a text (the  *)
(* UTF-8 bytes of a str) are sequences of bytes.  A u32 is the function    *)
(* from bit position (0 = least significant) to bit value; TLC's integers  *)
(* are too narrow to hold every u32.                                       *)
(***************************************************************************)
EXTENDS Integers, Sequences, FiniteSets, TLC

(***************************************************************************)
(* Bounds of the model                                                     *)
(***************************************************************************)
\* longest byte slice handed to From<&[u8]>
MaxSliceLen == 5
\* largest number of chars in a text handed to from_str
MaxTextChars == 4
\* largest number of write_str calls a sink accepts before it refuses
MaxWrites == 3

(***************************************************************************)
(* u32 arithmetic, bit by bit                                              *)
(***************************************************************************)
BitPos == 0..31

Pow2(k) == 2 ^ k

\* bit i of the natural number n
BitOf(n, i) == (n \div Pow2(i)) % 2

\* the number whose bits 0..(w-1) are bits lo..(lo+w-1) of the u32 v
Field(v, lo, w) ==
  LET RECURSIVE Sum(_)
      Sum(i) == IF i = w THEN 0 ELSE v[lo + i] * Pow2(i) + Sum(i + 1)
  IN Sum(0)

\* the u32 whose high 16 bits are hi and low 16 bits are lo (a literal)
Lit(hi, lo) ==
  [i \in BitPos |-> IF i < 16 THEN BitOf(lo, i) ELSE BitOf(hi, i - 16)]

\* `b as u32` for a u8 b: zero extension
AsU32(b) == [i \in BitPos |-> IF i < 8 THEN BitOf(b, i) ELSE 0]

\* `v as u8`: truncation to the low 8 bits
AsU8(v) == Field(v, 0, 8)

\* v >> k on u32 (k < 32)
Shr(v, k) == [i \in BitPos |-> IF i + k <= 31 THEN v[i + k] ELSE 0]

\* v << k on u32 (k < 32): bits shifted past bit 31 are dropped
Shl(v, k) == [i \in BitPos |-> IF i >= k THEN v[i - k] ELSE 0]

\* a & b
BitAnd(a, b) == [i \in BitPos |-> a[i] * b[i]]

\* a | b
BitOr(a, b) == [i \in BitPos |-> IF a[i] + b[i] > 0 THEN 1 ELSE 0]

(***************************************************************************)
(* Constructors and integer conversions                                    *)
(***************************************************************************)
\* the outcome of an operation that yields a FourCC, fails, or aborts
Okay(c) == [kind |-> "Ok", cc |-> c]
Panic == [kind |-> "panic", cc |-> <<>>]

\* impl From<&[u8; 4]> for FourCC
FromArray(buf) == <<buf[1], buf[2], buf[3], buf[4]>>

\* mutant of FromSlice: a short slice is padded with zero bytes
FromSlicePad(buf) ==
  Okay([k \in 1..4 |-> IF k <= Len(buf) THEN buf[k] ELSE 0])

\* mutant of FromSlice: the last four bytes are taken, not the first four
FromSliceTail(buf) ==
  IF Len(buf) >= 4 THEN Okay(SubSeq(buf, Len(buf) - 3, Len(buf))) ELSE Panic

\* impl From<&[u8]> for FourCC: buf[0], buf[1], buf[2], buf[3] are bounds-
\* checked indexings, each of which panics when the index is out of range
FromSlice(buf) ==
  IF \A i \in 0..3 : i < Len(buf)
    THEN Okay(<<buf[1], buf[2], buf[3], buf[4]>>)
    ELSE Panic

\* mutant of FromU32: the bytes come out least significant first
FromU32LittleEndian(val) ==
  << AsU8(BitAnd(val, Lit(0, 255))),
     AsU8(BitAnd(Shr(val, 8), Lit(0, 255))),
     AsU8(BitAnd(Shr(val, 16), Lit(0, 255))),
     AsU8(BitAnd(Shr(val, 24), Lit(0, 255))) >>

\* impl From<u32> for FourCC
FromU32(val) ==
  << AsU8(BitAnd(Shr(val, 24), Lit(0, 255))),
     AsU8(BitAnd(Shr(val, 16), Lit(0, 255))),
     AsU8(BitAnd(Shr(val, 8), Lit(0, 255))),
     AsU8(BitAnd(val, Lit(0, 255))) >>

\* mutant of IntoU32: byte 1 is shifted by 8 as byte 2 is, and masked away
IntoU32ShiftSlip(c) ==
  BitOr(BitOr(BitOr(BitAnd(Shl(AsU32(c[1]), 24), Lit(65280, 0)),
                    BitAnd(Shl(AsU32(c[2]), 8), Lit(255, 0))),
              BitAnd(Shl(AsU32(c[3]), 8), Lit(0, 65280))),
        BitAnd(AsU32(c[4]), Lit(0, 255)))

\* impl From<FourCC> for u32
IntoU32(c) ==
  BitOr(BitOr(BitOr(BitAnd(Shl(AsU32(c[1]), 24), Lit(65280, 0)),
                    BitAnd(Shl(AsU32(c[2]), 16), Lit(255, 0))),
              BitAnd(Shl(AsU32(c[3]), 8), Lit(0, 65280))),
        BitAnd(AsU32(c[4]), Lit(0, 255)))

(***************************************************************************)
(* UTF-8: std::str::from_utf8 and String::from_utf8_lossy                  *)
(***************************************************************************)
\* a continuation byte, 10xxxxxx
IsCont(b) == b >= 128 /\ b <= 191

\* the length of the sequence a leading byte announces (0: no leading byte)
Utf8CharWidth(b) ==
  IF b < 128 THEN 1
  ELSE IF b >= 194 /\ b <= 223 THEN 2
  ELSE IF b >= 224 /\ b <= 239 THEN 3
  ELSE IF b >= 240 /\ b <= 244 THEN 4
  ELSE 0

\* the second byte a leading byte of a 3- or 4-byte sequence allows: the
\* ranges that exclude overlong forms, surrogates and values above U+10FFFF
SecondOk(first, next) ==
  \/ first = 224 /\ next >= 160 /\ next <= 191
  \/ first >= 225 /\ first <= 236 /\ IsCont(next)
  \/ first = 237 /\ next >= 128 /\ next <= 159
  \/ first >= 238 /\ first <= 239 /\ IsCont(next)
  \/ first = 240 /\ next >= 144 /\ next <= 191
  \/ first >= 241 /\ first <= 243 /\ IsCont(next)
  \/ first = 244 /\ next >= 128 /\ next <= 143

\* how many bytes of s, from index i, the decoder takes as one step, and
\* whether they are a well-formed char: a well-formed sequence is taken
\* whole, an ill-formed one up to (not including) the first offending byte
Utf8Step(s, i) ==
  LET first == s[i]
      w == Utf8CharWidth(first)
      Has(k) == i + k <= Len(s)
  IN IF w = 1 THEN [ok |-> TRUE, n |-> 1]
     ELSE IF w = 0 THEN [ok |-> FALSE, n |-> 1]
     ELSE IF w = 2 THEN
       IF Has(1) /\ IsCont(s[i + 1]) THEN [ok |-> TRUE, n |-> 2]
       ELSE [ok |-> FALSE, n |-> 1]
     ELSE IF ~(Has(1) /\ SecondOk(first, s[i + 1])) THEN [ok |-> FALSE, n |-> 1]
     ELSE IF ~(Has(2) /\ IsCont(s[i + 2])) THEN [ok |-> FALSE, n |-> 2]
     ELSE IF w = 3 THEN [ok |-> TRUE, n |-> 3]
     ELSE IF ~(Has(3) /\ IsCont(s[i + 3])) THEN [ok |-> FALSE, n |-> 3]
     ELSE [ok |-> TRUE, n |-> 4]

\* std::str::from_utf8(s).is_ok()
RECURSIVE Utf8From(_, _)
Utf8From(s, i) ==
  IF i > Len(s) THEN TRUE
  ELSE LET st == Utf8Step(s, i)
       IN st.ok /\ Utf8From(s, i + st.n)

FromUtf8Ok(s) == Utf8From(s, 1)

\* U+FFFD REPLACEMENT CHARACTER in UTF-8
Replacement == <<239, 191, 189>>

\* String::from_utf8_lossy(s): each ill-formed step becomes U+FFFD
RECURSIVE LossyFrom(_, _)
LossyFrom(s, i) ==
  IF i > Len(s) THEN <<>>
  ELSE LET st == Utf8Step(s, i)
       IN (IF st.ok THEN SubSeq(s, i, i + st.n - 1) ELSE Replacement)
            \o LossyFrom(s, i + st.n)

FromUtf8Lossy(s) == LossyFrom(s, 1)

(***************************************************************************)
(* std::ascii::escape_default                                              *)
(***************************************************************************)
\* mutant of HexDigit: uppercase hex digits
HexDigitUpper(d) == IF d < 10 THEN 48 + d ELSE 65 + (d - 10)

\* the ASCII code of the lowercase hex digit of d in 0..15
HexDigit(d) == IF d < 10 THEN 48 + d ELSE 97 + (d - 10)

EscapeDefault(b) ==
  IF b = 9 THEN <<92, 116>>
  ELSE IF b = 13 THEN <<92, 114>>
  ELSE IF b = 10 THEN <<92, 110>>
  ELSE IF b = 92 THEN <<92, 92>>
  ELSE IF b = 39 THEN <<92, 39>>
  ELSE IF b = 34 THEN <<92, 34>>
  ELSE IF b >= 32 /\ b <= 126 THEN <<b>>
  ELSE <<92, 120, HexDigit(b \div 16), HexDigit(b % 16)>>

\* self.0.iter().flat_map(|b| escape_default(*b)).collect::<Vec<u8>>()
RECURSIVE FlatMapEscape(_)
FlatMapEscape(bs) ==
  IF bs = <<>> THEN <<>>
  ELSE EscapeDefault(Head(bs)) \o FlatMapEscape(Tail(bs))

(***************************************************************************)
(* Formatting: the sink behind a fmt::Formatter, Display and Debug         *)
(***************************************************************************)
\* a sink that takes `budget` more writes; a String takes every write
Sink(budget) == [buf |-> <<>>, budget |-> budget, refused |-> FALSE]
StringSink == [buf |-> <<>>, budget |-> -1, refused |-> FALSE]

\* f.write_str(s): Ok and the text appended, or Err when the sink refuses
WriteStr(f, s) ==
  IF f.budget = 0
    THEN [res |-> "Err", f |-> [f EXCEPT !.refused = TRUE]]
    ELSE [res |-> "Ok",
          f |-> [f EXCEPT !.buf = @ \o s,
                          !.budget = IF @ > 0 THEN @ - 1 ELSE @]]

\* mutant of DisplayFmt: bytes that are not UTF-8 are a formatting error
DisplayFmtStrict(self, f) ==
  IF FromUtf8Ok(self)
    THEN WriteStr(f, self)
    ELSE [res |-> "Err", f |-> f]

\* mutant of DisplayFmt: every value is rendered escaped
DisplayFmtEscapeAll(self, f) ==
  WriteStr(f, FromUtf8Lossy(FlatMapEscape(self)))

\* impl fmt::Display for FourCC
DisplayFmt(self, f) ==
  IF FromUtf8Ok(self)
    THEN WriteStr(f, self)
    ELSE WriteStr(f, FromUtf8Lossy(FlatMapEscape(self)))

\* the text "FourCC{" and the text "}"
OpenText == <<70, 111, 117, 114, 67, 67, 123>>
CloseText == <<125>>

\* mutant of DebugFmt: a rendering of its own, lossy but not escaped
DebugFmtOwnPath(self, f) ==
  LET r1 == WriteStr(f, OpenText)
  IN IF r1.res = "Err" THEN r1
     ELSE LET r2 == WriteStr(r1.f, FromUtf8Lossy(self))
          IN IF r2.res = "Err" THEN r2
             ELSE WriteStr(r2.f, CloseText)

\* impl fmt::Debug for FourCC; each `?` returns the error at once
DebugFmt(self, f) ==
  LET r1 == WriteStr(f, OpenText)
  IN IF r1.res = "Err" THEN r1
     ELSE LET r2 == DisplayFmt(self, r1.f)
          IN IF r2.res = "Err" THEN r2
             ELSE WriteStr(r2.f, CloseText)

\* impl serde::ser::Serialize: collect_str(self) renders self with Display
\* into a String and hands the text to the serializer
Serialize(self) == DisplayFmt(self, StringSink)

(***************************************************************************)
(* Text parsing: FromStr and the serde visitor                             *)
(***************************************************************************)
\* mutant of FromStr: the last four bytes of the text are taken
FromStrTail(s) == FromSliceTail(s)

\* impl FromStr for FourCC: Ok(s.as_bytes().into()), where into() is
\* From<&[u8]>; no path returns Err
FromStr(s) == FromSlice(s)

\* FromStrVisitor::visit_str: s.parse().map_err(custom)
VisitStr(s) ==
  LET r == FromStr(s)
  IN IF r.kind = "Err" THEN [kind |-> "Err", cc |-> <<>>] ELSE r

(***************************************************************************)
(* Inputs                                                                  *)
(***************************************************************************)
\* all sequences over S of length 0..n
SeqsUpTo(S, n) == UNION {[1..k -> S] : k \in 0..n}

\* char::encode_utf8: the UTF-8 bytes of the Unicode scalar value c
EncodeUtf8(c) ==
  IF c < 128 THEN <<c>>
  ELSE IF c < 2048 THEN <<192 + (c \div 64), 128 + (c % 64)>>
  ELSE IF c < 65536 THEN
    <<224 + (c \div 4096), 128 + ((c \div 64) % 64), 128 + (c % 64)>>
  ELSE <<240 + (c \div 262144), 128 + ((c \div 4096) % 64),
         128 + ((c \div 64) % 64), 128 + (c % 64)>>

\* the bytes of the str made of the chars cs
RECURSIVE StrBytes(_)
StrBytes(cs) ==
  IF cs = <<>> THEN <<>> ELSE EncodeUtf8(Head(cs)) \o StrBytes(Tail(cs))

\* chars of every encoded length: NUL, \, u, U+00E9, U+20AC, U+1F600
SampleChars == {0, 92, 117, 233, 8364, 128512}
Texts == {StrBytes(cs) : cs \in SeqsUpTo(SampleChars, MaxTextChars)}

\* bytes of slices: NUL, f, m, o, 0xff
SliceBytes == {0, 102, 109, 111, 255}
Slices == SeqsUpTo(SliceBytes, MaxSliceLen)

\* bytes of [u8; 4] inputs of the conversions
ArrayBytes == {0, 1, 65, 66, 67, 68, 127, 128, 255}
Arrays == [1..4 -> ArrayBytes]

\* 16-bit halves of the u32 inputs
Halves == {0, 1, 255, 256, 16706, 17220, 32767, 32768, 65280, 65535}
Words == {Lit(hi, lo) : hi \in Halves, lo \in Halves}

\* FourCC values to render: the documented uuid and u\xFFi\0, every 4-tuple over bytes of each UTF-8 role
\* (ASCII, continuation, the leading bytes with a restricted second byte),
\* and every byte value at every position among u and 0x80
CoreBytes == {0, 92, 117, 128, 160, 195, 224, 237, 240}
ContextBytes == {117, 128}
Examples == {<<117, 117, 105, 100>>, <<117, 255, 105, 0>>}
Values ==
  Examples \cup [1..4 -> CoreBytes] \cup
  {[c EXCEPT ![p] = b] : c \in [1..4 -> ContextBytes], p \in 1..4, b \in 0..255}

(***************************************************************************)
(* State: one client session, an input and the operations applied to it    *)
(***************************************************************************)
VARIABLES
  kind,     \* the type of the input: "array", "slice", "u32", "text", "value"
  bytes,    \* the input bytes (array, slice, or the bytes of the text)
  word,     \* the input u32
  pc,       \* the operation applied last ("start": none yet)
  step,     \* how many operations were applied
  cc,       \* the FourCC in hand (<<>>: none)
  res,      \* how the operation that makes cc ended: "Ok", "Err", "panic"
  val,      \* the u32 got from cc
  out,      \* the text the sink received
  refused,  \* whether the sink refused a write
  fmtres,   \* what fmt returned: "Ok", "Err"
  back,     \* the FourCC made from val or from out (<<>>: none)
  backres   \* how the operation that makes back ended

vars == <<kind, bytes, word, pc, step, cc, res, val, out, refused, fmtres,
          back, backres>>

Zero == Lit(0, 0)

Fresh ==
  /\ pc = "start" /\ step = 0
  /\ res = "none" /\ val = Zero /\ out = <<>> /\ refused = FALSE
  /\ fmtres = "none" /\ back = <<>> /\ backres = "none"

\* an input of the conversions: a [u8; 4], a slice or a u32
InitConv ==
  /\ Fresh /\ cc = <<>>
  /\ \/ kind = "array" /\ bytes \in Arrays /\ word = Zero
     \/ kind = "slice" /\ bytes \in Slices /\ word = Zero
     \/ kind = "u32" /\ bytes = <<>> /\ word \in Words

\* a FourCC value written as FourCC([b0, b1, b2, b3])
InitFmt ==
  /\ Fresh /\ kind = "value" /\ bytes = <<>> /\ word = Zero
  /\ cc \in Values

\* a text to parse, or a FourCC value to serialize
InitText ==
  /\ Fresh /\ word = Zero
  /\ \/ kind = "text" /\ bytes \in Texts /\ cc = <<>>
     \/ kind = "value" /\ bytes = <<>> /\ cc \in Values

\* a FourCC is in hand and nothing was done with it yet
InHand == cc # <<>> /\ step = (IF kind = "value" THEN 0 ELSE 1)

DoFromArray ==
  /\ pc = "start" /\ kind = "array"
  /\ cc' = FromArray(bytes) /\ res' = "Ok"
  /\ pc' = "FromArray" /\ step' = step + 1
  /\ UNCHANGED <<kind, bytes, word, val, out, refused, fmtres, back, backres>>

DoFromSlice ==
  /\ pc = "start" /\ kind = "slice"
  /\ LET r == FromSlice(bytes) IN cc' = r.cc /\ res' = r.kind
  /\ pc' = "FromSlice" /\ step' = step + 1
  /\ UNCHANGED <<kind, bytes, word, val, out, refused, fmtres, back, backres>>

DoFromU32 ==
  \/ /\ pc = "start" /\ kind = "u32"
     /\ cc' = FromU32(word) /\ res' = "Ok"
     /\ pc' = "FromU32" /\ step' = step + 1
     /\ UNCHANGED <<kind, bytes, word, val, out, refused, fmtres, back, backres>>
  \/ /\ pc = "IntoU32"
     /\ back' = FromU32(val) /\ backres' = "Ok"
     /\ pc' = "FromU32" /\ step' = step + 1
     /\ UNCHANGED <<kind, bytes, word, cc, res, val, out, refused, fmtres>>

DoIntoU32 ==
  /\ InHand
  /\ val' = IntoU32(cc)
  /\ pc' = "IntoU32" /\ step' = step + 1
  /\ UNCHANGED <<kind, bytes, word, cc, res, out, refused, fmtres, back, backres>>

DoDisplay ==
  /\ InHand
  /\ \E n \in 0..MaxWrites :
       LET r == DisplayFmt(cc, Sink(n))
       IN out' = r.f.buf /\ refused' = r.f.refused /\ fmtres' = r.res
  /\ pc' = "Display" /\ step' = step + 1
  /\ UNCHANGED <<kind, bytes, word, cc, res, val, back, backres>>

DoDebug ==
  /\ InHand
  /\ \E n \in 0..MaxWrites :
       LET r == DebugFmt(cc, Sink(n))
       IN out' = r.f.buf /\ refused' = r.f.refused /\ fmtres' = r.res
  /\ pc' = "Debug" /\ step' = step + 1
  /\ UNCHANGED <<kind, bytes, word, cc, res, val, back, backres>>

DoSerialize ==
  /\ InHand
  /\ LET r == Serialize(cc)
     IN out' = r.f.buf /\ refused' = r.f.refused /\ fmtres' = r.res
  /\ pc' = "Serialize" /\ step' = step + 1
  /\ UNCHANGED <<kind, bytes, word, cc, res, val, back, backres>>

DoFromStr ==
  \/ /\ pc = "start" /\ kind = "text"
     /\ LET r == FromStr(bytes) IN cc' = r.cc /\ res' = r.kind
     /\ pc' = "FromStr" /\ step' = step + 1
     /\ UNCHANGED <<kind, bytes, word, val, out, refused, fmtres, back, backres>>
  \/ /\ pc = "Serialize" /\ fmtres = "Ok"
     /\ LET r == FromStr(out) IN back' = r.cc /\ backres' = r.kind
     /\ pc' = "FromStr" /\ step' = step + 1
     /\ UNCHANGED <<kind, bytes, word, cc, res, val, out, refused, fmtres>>

\* Deserialize: deserialize_str hands the text to visit_str
DoVisitStr ==
  \/ /\ pc = "start" /\ kind = "text"
     /\ LET r == VisitStr(bytes) IN cc' = r.cc /\ res' = r.kind
     /\ pc' = "VisitStr" /\ step' = step + 1
     /\ UNCHANGED <<kind, bytes, word, val, out, refused, fmtres, back, backres>>
  \/ /\ pc = "Serialize" /\ fmtres = "Ok"
     /\ LET r == VisitStr(out) IN back' = r.cc /\ backres' = r.kind
     /\ pc' = "VisitStr" /\ step' = step + 1
     /\ UNCHANGED <<kind, bytes, word, cc, res, val, out, refused, fmtres>>

NextConv == DoFromArray \/ DoFromSlice \/ DoFromU32 \/ DoIntoU32
NextFmt == DoDisplay \/ DoDebug
NextText == DoFromStr \/ DoVisitStr \/ DoSerialize

SpecConv == InitConv /\ [][NextConv]_vars
SpecFmt == InitFmt /\ [][NextFmt]_vars
SpecText == InitText /\ [][NextText]_vars

(***************************************************************************)
(* Reference definitions the properties are stated with                    *)
(***************************************************************************)
\* the number n bytes carry in their payload bits, well-formed or not
PayloadOf(s) ==
  IF Len(s) = 1 THEN s[1]
  ELSE IF Len(s) = 2 THEN (s[1] % 32) * 64 + (s[2] % 64)
  ELSE IF Len(s) = 3 THEN (s[1] % 16) * 4096 + (s[2] % 64) * 64 + (s[3] % 64)
  ELSE (s[1] % 8) * 262144 + (s[2] % 64) * 4096 + (s[3] % 64) * 64 + (s[4] % 64)

\* a Unicode scalar value: at most U+10FFFF and no surrogate
IsScalar(c) == c <= 1114111 /\ ~(c >= 55296 /\ c <= 57343)

\* s is the UTF-8 encoding of one scalar value
EncodesChar(s) ==
  LET c == PayloadOf(s) IN IsScalar(c) /\ EncodeUtf8(c) = s

\* s is valid UTF-8: a concatenation of encodings of scalar values
RECURSIVE WellFormed(_)
WellFormed(s) ==
  \/ s = <<>>
  \/ \E n \in 1..4 :
       /\ n <= Len(s)
       /\ EncodesChar(SubSeq(s, 1, n))
       /\ WellFormed(SubSeq(s, n + 1, Len(s)))

\* the two-character escapes: the byte escaped |-> the character after the \
ShortEscape == (9 :> 116) @@ (10 :> 110) @@ (13 :> 114) @@
               (92 :> 92) @@ (39 :> 39) @@ (34 :> 34)

\* the characters 0123456789abcdef
LowerHex == <<48, 49, 50, 51, 52, 53, 54, 55, 56, 57, 97, 98, 99, 100, 101, 102>>

\* the escape of one byte, as the documentation of the fallback states it
RefEscape(b) ==
  IF b \in DOMAIN ShortEscape THEN <<92, ShortEscape[b]>>
  ELSE IF b \in 32..126 THEN <<b>>
  ELSE <<92, 120, LowerHex[(b \div 16) + 1], LowerHex[(b % 16) + 1]>>

\* the rendering of a FourCC, as the documentation states it
RefDisplay(c) ==
  IF WellFormed(c) THEN c
  ELSE RefEscape(c[1]) \o RefEscape(c[2]) \o RefEscape(c[3]) \o RefEscape(c[4])

\* the bytes u 0xFF i NUL and the text u\xffi\x00
BadBytes == <<117, 255, 105, 0>>
BadText == <<117, 92, 120, 102, 102, 105, 92, 120, 48, 48>>
\* the bytes of uuid, of ABCD and of moof
Uuid == <<117, 117, 105, 100>>
Abcd == <<65, 66, 67, 68>>
Moof == <<109, 111, 111, 102>>

(***************************************************************************)
(* Properties                                                              *)
(***************************************************************************)
\* C1: whatever the four bytes, Display and Debug return Ok and hand the
\* sink valid UTF-8, as long as the sink refused no write
RenderNeverFails ==
  (pc \in {"Display", "Debug"} /\ ~refused) =>
    (fmtres = "Ok" /\ WellFormed(out))

\* C1 witness: Debug of u 0xFF i NUL ended Ok on a sink that took all writes
RenderNeverFailsWitness ==
  pc = "Debug" /\ ~refused /\ cc = BadBytes /\ fmtres = "Ok" /\ out # <<>>

\* C2: Display writes the four bytes themselves when they are valid UTF-8,
\* and otherwise the per-byte escapes in byte order: printable ASCII as
\* itself, \t \n \r \\ \' \" for those six, \xHH in lowercase hex otherwise
DisplayMatchesReference ==
  (pc = "Display" /\ ~refused) => out = RefDisplay(cc)

\* C2 witness: Display of u 0xFF i NUL wrote u\xffi\x00
DisplayMatchesReferenceWitness ==
  pc = "Display" /\ ~refused /\ cc = BadBytes /\ out = BadText

\* C3: from_str and visit_str return an error, and neither a FourCC nor a
\* panic, for every text whose byte length is not 4
ParseRejectsWrongLength ==
  (kind = "text" /\ step = 1 /\ pc \in {"FromStr", "VisitStr"}
     /\ Len(bytes) # 4) =>
    (res = "Err" /\ cc = <<>>)

\* C4: From<&[u8]> on a slice of length 0..3 panics and yields no FourCC
ShortSlicePanics ==
  (kind = "slice" /\ step >= 1 /\ Len(bytes) < 4) =>
    (res = "panic" /\ cc = <<>>)

\* C4 witness: a 3-byte slice was converted and the conversion panicked
ShortSlicePanicsWitness ==
  pc = "FromSlice" /\ Len(bytes) = 3 /\ res = "panic"

\* C5: u32::from(FourCC::from(v)) = v for every u32 v, and
\* FourCC::from(u32::from(FourCC(b))) = FourCC(b) for every [u8; 4] b
IntRoundTrip ==
  /\ (kind = "u32" /\ pc = "IntoU32") => val = word
  /\ (kind = "array" /\ pc = "FromU32" /\ step = 3) =>
       (cc = bytes /\ back = cc)

\* C5 witness: ABCD went to 0x41424344 and came back as ABCD
IntRoundTripWitness ==
  /\ kind = "array" /\ pc = "FromU32" /\ step = 3
  /\ bytes = Abcd /\ val = Lit(16706, 17220) /\ back = Abcd

\* C6: FourCC::from(v) has byte k = bits 31-8k .. 24-8k of v, and u32::from
\* gives b0*2^24 + b1*2^16 + b2*2^8 + b3 (stated on the two 16-bit halves)
IntBigEndian ==
  /\ (kind = "u32" /\ pc = "FromU32" /\ step = 1) =>
       /\ cc[1] = Field(word, 24, 8)
       /\ cc[2] = Field(word, 16, 8)
       /\ cc[3] = Field(word, 8, 8)
       /\ cc[4] = Field(word, 0, 8)
  /\ pc = "IntoU32" =>
       /\ Field(val, 16, 16) = cc[1] * 256 + cc[2]
       /\ Field(val, 0, 16) = cc[3] * 256 + cc[4]

\* C6 witness: 0x41424344 was converted to the bytes 0x41 0x42 0x43 0x44
IntBigEndianWitness ==
  kind = "u32" /\ pc = "FromU32" /\ word = Lit(16706, 17220) /\ cc = Abcd

\* C7: From<&[u8]> on a slice of length >= 4 yields its first four bytes in
\* order, whatever follows them
LongSliceTakesFirstFour ==
  (kind = "slice" /\ step >= 1 /\ Len(bytes) >= 4) =>
    (res = "Ok" /\ cc = <<bytes[1], bytes[2], bytes[3], bytes[4]>>)

\* C7 witness: a 5-byte slice that starts with moof gave FourCC(*b"moof")
LongSliceTakesFirstFourWitness ==
  pc = "FromSlice" /\ Len(bytes) = 5 /\ SubSeq(bytes, 1, 4) = Moof
    /\ bytes[5] # 102 /\ cc = Moof

\* C8: for a text of exactly 4 bytes, from_str succeeds and rendering the
\* FourCC it returns gives the text back
ParseThenRender ==
  (kind = "text" /\ Len(bytes) = 4 /\ step >= 1) =>
    /\ res = "Ok"
    /\ pc = "Serialize" => (fmtres = "Ok" /\ out = bytes)

\* C8 witness: the text U+00E9 u \ (4 bytes) was parsed and rendered back
ParseThenRenderWitness ==
  /\ kind = "text" /\ pc = "Serialize"
  /\ bytes = <<195, 169, 117, 92>> /\ out = bytes

\* C9: Debug writes FourCC{ then what Display writes then }
DebugWrapsDisplay ==
  (pc = "Debug" /\ ~refused) =>
    /\ out = OpenText \o DisplayFmt(cc, StringSink).f.buf \o CloseText
    /\ cc = Uuid => out = OpenText \o Uuid \o CloseText
    /\ cc = BadBytes => out = OpenText \o BadText \o CloseText

\* C9 witness: Debug of u 0xFF i NUL wrote FourCC{u\xffi\x00}
DebugWrapsDisplayWitness ==
  pc = "Debug" /\ ~refused /\ cc = BadBytes
    /\ out = OpenText \o BadText \o CloseText

\* C10: from_str of the rendering of v returns Ok(v) exactly when v is valid
\* UTF-8; otherwise it returns Ok of the first 4 bytes of the escaped text,
\* which differ from v
RenderThenParse ==
  (kind = "value" /\ step = 2 /\ pc \in {"FromStr", "VisitStr"}) =>
    /\ backres = "Ok"
    /\ back = cc <=> WellFormed(cc)
    /\ ~WellFormed(cc) => (back = SubSeq(out, 1, 4) /\ back # cc)

\* C10 witness: u 0xFF i NUL was rendered and parsed back as u\xf
RenderThenParseWitness ==
  /\ kind = "value" /\ pc = "FromStr" /\ cc = BadBytes
  /\ out = BadText /\ back = <<117, 92, 120, 102>>

====
